---- MODULE Spec2Model ----
(***************************************************************************)
(* A model of the genomic data upload pipeline of                          *)
(* src/genomic_data_upload.py: the normalizer (standardize_value), the     *)
(* validator and deduplicator (validate_and_clean_data), the verifier      *)
(* (verify_upload), the single-unit and the chunked upload                 *)
(* (upload_to_database, parallel_upload, process_file_chunk), the backup   *)
(* (backup_table) and the orchestrator loop of main.                       *)
(*                                                                         *)
(* Conventions of the data model                                           *)
(*  - a Python string is a sequence of one-character strings;             *)
(*  - a cell of a DataFrame is a record [k, n, s]: k is the kind ("nan",   *)
(*    "int", "float", "str", "inf", "ninf", and "none" for Python's None), *)
(*    n the number in tenths (5.2 is 52, the integer 3 is 30), s the       *)
(*    characters of a string;                                              *)
(*  - a row is a function from column names to cells, a DataFrame a        *)
(*    sequence of rows;                                                    *)
(*  - the md5 digest of generate_record_hash is modelled by the value it   *)
(*    digests (the sorted items of the row), i.e. as collision free.       *)
(***************************************************************************)
EXTENDS Integers, Sequences, FiniteSets, Bags, TLC

(***************************************************************************)
(* Bounds of the model.                                                    *)
(***************************************************************************)
\* most rows read from the files of one run, all files together
MaxRows == 3
\* most files found in the directory of one run
MaxFiles == 2
\* largest --chunk-size tried
MaxChunk == 2

(***************************************************************************)
(* Program constants.                                                      *)
(***************************************************************************)
\* max_workers=multiprocessing.cpu_count(), on a host of two processors
CpuCount == 2
\* --chunk-size, default=10000
DefaultChunkSize == 10000
\* verify_upload: sample_size = min(5, len(df))
SampleMax == 5

(***************************************************************************)
(* Strings as sequences of characters.                                     *)
(***************************************************************************)
Min(a, b) == IF a <= b THEN a ELSE b

Range(s) == {s[i] : i \in DOMAIN s}

Digits == {"0", "1", "2", "3", "4", "5", "6", "7", "8", "9"}
\* the letters of the model's alphabet
UpperLetters == {"A", "C", "G", "T", "X", "Y", "H", "R", "S", "B", "M",
                 "D", "E", "N", "O", "V", "I", "F"}
LowerLetters == {"a", "c", "g", "t", "x", "y", "h", "r", "s", "b", "m",
                 "d", "e", "n", "o", "v", "i", "f"}
Whitespace == {" ", "\n", "\t"}

\* str.upper() on one character: the letters of the model's alphabet
UpperChar(c) ==
    CASE c = "a" -> "A" [] c = "c" -> "C" [] c = "g" -> "G" [] c = "t" -> "T"
      [] c = "x" -> "X" [] c = "y" -> "Y" [] c = "h" -> "H" [] c = "r" -> "R"
      [] c = "s" -> "S" [] c = "b" -> "B" [] c = "m" -> "M" [] c = "d" -> "D"
      [] c = "e" -> "E" [] c = "n" -> "N" [] c = "o" -> "O" [] c = "v" -> "V"
      [] c = "i" -> "I" [] c = "f" -> "F"
      [] OTHER -> c

\* str.lower() on one character
LowerChar(c) ==
    CASE c = "A" -> "a" [] c = "C" -> "c" [] c = "G" -> "g" [] c = "T" -> "t"
      [] c = "X" -> "x" [] c = "Y" -> "y" [] c = "H" -> "h" [] c = "R" -> "r"
      [] c = "S" -> "s" [] c = "B" -> "b" [] c = "M" -> "m" [] c = "D" -> "d"
      [] c = "E" -> "e" [] c = "N" -> "n" [] c = "O" -> "o" [] c = "V" -> "v"
      [] c = "I" -> "i" [] c = "F" -> "f"
      [] OTHER -> c

Upper(s) == [i \in DOMAIN s |-> UpperChar(s[i])]
Lower(s) == [i \in DOMAIN s |-> LowerChar(s[i])]

\* sub occurs in s at position i
OccursAt(s, sub, i) ==
    /\ i >= 1
    /\ i + Len(sub) - 1 <= Len(s)
    /\ \A j \in 1..Len(sub) : s[i + j - 1] = sub[j]

\* Python's `sub in s`
Contains(s, sub) == \E i \in 1..(Len(s) + 1) : OccursAt(s, sub, i)

\* Python's s.endswith(sub)
EndsWith(s, sub) ==
    Len(sub) <= Len(s) /\ OccursAt(s, sub, Len(s) - Len(sub) + 1)

\* Python's s.replace(sub, ""): every occurrence removed, scanning left to right
RECURSIVE RemoveAllFrom(_, _, _)
RemoveAllFrom(s, sub, i) ==
    IF i > Len(s) THEN <<>>
    ELSE IF Len(sub) > 0 /\ OccursAt(s, sub, i)
         THEN RemoveAllFrom(s, sub, i + Len(sub))
         ELSE <<s[i]>> \o RemoveAllFrom(s, sub, i + 1)

RemoveAll(s, sub) == RemoveAllFrom(s, sub, 1)

\* Python's s.strip()
RECURSIVE LStrip(_)
LStrip(s) ==
    IF s # <<>> /\ Head(s) \in Whitespace THEN LStrip(Tail(s)) ELSE s

RECURSIVE RStrip(_)
RStrip(s) ==
    IF s # <<>> /\ s[Len(s)] \in Whitespace
    THEN RStrip(SubSeq(s, 1, Len(s) - 1)) ELSE s

Strip(s) == RStrip(LStrip(s))

(***************************************************************************)
(* Cells.                                                                  *)
(***************************************************************************)
Cell(k, n, s) == [k |-> k, n |-> n, s |-> s]
NaN == Cell("nan", 0, <<>>)
None == Cell("none", 0, <<>>)
PosInf == Cell("inf", 0, <<>>)
NegInf == Cell("ninf", 0, <<>>)
\* a Python int, a Python float (in tenths) and a Python str
IntCell(n) == Cell("int", n * 10, <<>>)
FloatCell(tenths) == Cell("float", tenths, <<>>)
StrCell(s) == Cell("str", 0, s)
\* the datetime of the t-th reading of the clock
TimeCell(t) == Cell("time", t, <<>>)

\* pd.isna(value)
IsNa(v) == v.k \in {"nan", "none"}

\* the decimal digits of a natural number
DigitOf(d) ==
    CASE d = 0 -> "0" [] d = 1 -> "1" [] d = 2 -> "2" [] d = 3 -> "3"
      [] d = 4 -> "4" [] d = 5 -> "5" [] d = 6 -> "6" [] d = 7 -> "7"
      [] d = 8 -> "8" [] OTHER -> "9"

ValueOfDigit(c) ==
    CASE c = "0" -> 0 [] c = "1" -> 1 [] c = "2" -> 2 [] c = "3" -> 3
      [] c = "4" -> 4 [] c = "5" -> 5 [] c = "6" -> 6 [] c = "7" -> 7
      [] c = "8" -> 8 [] OTHER -> 9

RECURSIVE NatToStr(_)
NatToStr(n) ==
    IF n < 10 THEN <<DigitOf(n)>> ELSE NatToStr(n \div 10) \o <<DigitOf(n % 10)>>

Abs(n) == IF n < 0 THEN 0 - n ELSE n
SignStr(n) == IF n < 0 THEN <<"-">> ELSE <<>>

\* Python's str(value) of a cell
ToStr(v) ==
    CASE v.k = "str" -> v.s
      [] v.k = "int" -> SignStr(v.n) \o NatToStr(Abs(v.n) \div 10)
      [] v.k = "float" ->
            SignStr(v.n) \o NatToStr(Abs(v.n) \div 10) \o <<".">>
                \o <<DigitOf(Abs(v.n) % 10)>>
      [] v.k = "inf" -> <<"i", "n", "f">>
      [] v.k = "ninf" -> <<"-", "i", "n", "f">>
      [] v.k = "nan" -> <<"n", "a", "n">>
      [] OTHER -> <<"N", "o", "n", "e">>

RECURSIVE StrToNat(_)
StrToNat(s) ==
    IF s = <<>> THEN 0
    ELSE StrToNat(SubSeq(s, 1, Len(s) - 1)) * 10 + ValueOfDigit(s[Len(s)])

AllDigits(s) == \A i \in DOMAIN s : s[i] \in Digits

\* the unsigned decimal literals float() accepts, to one fractional digit:
\* digits, digits "." and digits "." digit
DotAt(s) == IF \E i \in DOMAIN s : s[i] = "."
            THEN CHOOSE i \in DOMAIN s : s[i] = "." ELSE 0

IsUnsignedLiteral(s) ==
    LET d == DotAt(s) IN
    IF d = 0 THEN s # <<>> /\ AllDigits(s)
    ELSE /\ d > 1
         /\ AllDigits(SubSeq(s, 1, d - 1))
         /\ Len(s) - d <= 1
         /\ AllDigits(SubSeq(s, d + 1, Len(s)))

UnsignedTenths(s) ==
    LET d == DotAt(s) IN
    IF d = 0 THEN StrToNat(s) * 10
    ELSE StrToNat(SubSeq(s, 1, d - 1)) * 10
            + (IF d < Len(s) THEN ValueOfDigit(s[Len(s)]) ELSE 0)

\* Python's float(value): the float cell, or None where float() raises
\* ValueError or TypeError
ToFloat(v) ==
    CASE v.k \in {"int", "float"} -> FloatCell(v.n)
      [] v.k \in {"inf", "ninf", "nan"} -> v
      [] v.k = "str" ->
            LET t == Strip(v.s)
                neg == t # <<>> /\ Head(t) = "-"
                signed == t # <<>> /\ Head(t) \in {"-", "+"}
                body == IF signed THEN Tail(t) ELSE t
            IN  IF IsUnsignedLiteral(body)
                THEN FloatCell(IF neg THEN 0 - UnsignedTenths(body)
                                      ELSE UnsignedTenths(body))
                ELSE IF Lower(body) = <<"i", "n", "f">>
                THEN (IF neg THEN NegInf ELSE PosInf)
                ELSE IF Lower(body) = <<"n", "a", "n">> THEN NaN
                ELSE None
      [] OTHER -> None

\* Python's int(x) of a finite float: truncation towards zero
Trunc(tenths) ==
    IF tenths < 0 THEN 0 - ((0 - tenths) \div 10) * 10
    ELSE (tenths \div 10) * 10

(***************************************************************************)
(* Schema registry: get_table_schema.  A field rule is a record; min and   *)
(* max are in tenths.  Every rule of the source is required.               *)
(***************************************************************************)
Rule(type, pattern, hasMin, min, hasMax, max) ==
    [type |-> type, required |-> TRUE, pattern |-> pattern,
     hasMin |-> hasMin, min |-> min, hasMax |-> hasMax, max |-> max]

NamePattern == "^[A-Za-z0-9\\-_]+$"
ChromPattern == "^(chr)?\\d+$|^(chr)?[XY]$"
BasesPattern == "^[ACGT]+$"
NoPattern == ""

EmptySchema == [c \in {} |-> Rule("str", NoPattern, FALSE, 0, FALSE, 0)]

get_table_schema(table_type) ==
    CASE table_type = "tmb" ->
            ("SampleName" :> Rule("str", NamePattern, FALSE, 0, FALSE, 0))
         @@ ("TMB" :> Rule("float", NoPattern, TRUE, 0, FALSE, 0))
         @@ ("BinomialLow" :> Rule("float", NoPattern, TRUE, 0, TRUE, 10))
         @@ ("BinomialHigh" :> Rule("float", NoPattern, TRUE, 0, TRUE, 10))
      [] table_type = "cns" ->
            ("CHROM" :> Rule("str", ChromPattern, FALSE, 0, FALSE, 0))
         @@ ("START" :> Rule("int", NoPattern, TRUE, 0, FALSE, 0))
         @@ ("STOP" :> Rule("int", NoPattern, TRUE, 0, FALSE, 0))
         @@ ("GENE" :> Rule("str", NamePattern, FALSE, 0, FALSE, 0))
         @@ ("log2" :> Rule("float", NoPattern, FALSE, 0, FALSE, 0))
         @@ ("SampleName" :> Rule("str", NamePattern, FALSE, 0, FALSE, 0))
      [] table_type = "mean_gene_coverage" ->
            ("SampleName" :> Rule("str", NamePattern, FALSE, 0, FALSE, 0))
         @@ ("GENE" :> Rule("str", NamePattern, FALSE, 0, FALSE, 0))
         @@ ("MEAN_COVERAGE" :> Rule("float", NoPattern, TRUE, 0, FALSE, 0))
      [] table_type = "mastervar" ->
            ("SampleName" :> Rule("str", NamePattern, FALSE, 0, FALSE, 0))
         @@ ("CHROM" :> Rule("str", ChromPattern, FALSE, 0, FALSE, 0))
         @@ ("POS" :> Rule("int", NoPattern, TRUE, 0, FALSE, 0))
         @@ ("REF" :> Rule("str", BasesPattern, FALSE, 0, FALSE, 0))
         @@ ("ALT" :> Rule("str", BasesPattern, FALSE, 0, FALSE, 0))
         @@ ("AF" :> Rule("float", NoPattern, TRUE, 0, TRUE, 10))
      [] OTHER -> EmptySchema

(***************************************************************************)
(* re.match(pattern, s) for the three patterns of the registry.  "$"       *)
(* matches at the end of the string and before a newline that ends it.     *)
(***************************************************************************)
NameChars == UpperLetters \cup LowerLetters \cup Digits \cup {"-", "_"}

AllIn(s, chars) == s # <<>> /\ \A i \in DOMAIN s : s[i] \in chars

\* s with the newline that "$" tolerates removed
BeforeDollar(s) ==
    IF s # <<>> /\ s[Len(s)] = "\n" THEN SubSeq(s, 1, Len(s) - 1) ELSE s

\* s with an optional leading "chr" removed
AfterChr(s) ==
    IF OccursAt(s, <<"c", "h", "r">>, 1) THEN SubSeq(s, 4, Len(s)) ELSE s

ReMatch(pattern, s) ==
    LET t == BeforeDollar(s) IN
    CASE pattern = NamePattern -> AllIn(s, NameChars) \/ AllIn(t, NameChars)
      [] pattern = BasesPattern ->
            AllIn(s, {"A", "C", "G", "T"}) \/ AllIn(t, {"A", "C", "G", "T"})
      [] pattern = ChromPattern ->
            \/ AllIn(AfterChr(t), Digits) \/ AllIn(t, Digits)
            \/ AfterChr(t) \in {<<"X">>, <<"Y">>} \/ t \in {<<"X">>, <<"Y">>}
      [] OTHER -> TRUE

(***************************************************************************)
(* Normalizer: standardize_value.  Raised is the outcome of an exception   *)
(* that the except clause (ValueError, TypeError) does not catch: the      *)
(* OverflowError of int(float('inf')).                                     *)
(***************************************************************************)
Raised == Cell("raised", 0, <<>>)

\* 'CHROM' in column_name, over the column names of the model
IsChromColumn(column_name) == column_name = "CHROM"

standardize_value(value, column_name, schema) ==
    IF IsNa(value) THEN None
    ELSE IF IsChromColumn(column_name)
    THEN LET v == RemoveAll(Upper(ToStr(value)), <<"C", "H", "R">>) IN
         IF v = <<"X">> THEN StrCell(<<"2", "3">>)
         ELSE IF v = <<"Y">> THEN StrCell(<<"2", "4">>)
         ELSE StrCell(v)
    ELSE IF schema.type = "float" THEN ToFloat(value)
    ELSE IF schema.type = "int"
    THEN LET f == ToFloat(value) IN
         IF f = None \/ f.k = "nan" THEN None
         ELSE IF f.k \in {"inf", "ninf"} THEN Raised
         ELSE Cell("int", Trunc(f.n), <<>>)
    ELSE IF schema.type = "str" THEN StrCell(Strip(ToStr(value)))
    ELSE value

\* isinstance(std_val, schema[col]['type'])
IsInstance(v, type) ==
    CASE type = "float" -> v.k \in {"float", "inf", "ninf", "nan"}
      [] type = "int" -> v.k = "int"
      [] OTHER -> v.k = "str"

\* std_val < bound and std_val > bound for floats (bound in tenths)
Below_orEqual(v, bound) == v.k = "ninf" \/ (v.k \in {"int", "float"} /\ v.n <= bound)
Below(v, bound) == v.k = "ninf" \/ (v.k \in {"int", "float"} /\ v.n < bound)
Above(v, bound) == v.k = "inf" \/ (v.k \in {"int", "float"} /\ v.n > bound)

(***************************************************************************)
(* DataFrames: [none, columns, rows].  none marks Python's None where a    *)
(* function returns None instead of a DataFrame.                           *)
(***************************************************************************)
DataFrame(columns, rows) == [none |-> FALSE, columns |-> columns, rows |-> rows]
NoneFrame == [none |-> TRUE, columns |-> <<>>, rows |-> <<>>]

\* df is None or df.empty
NoneOrEmpty(df) == df.none \/ df.rows = <<>>

\* the columns of b that a lacks, in b's order
NewColumns(a, b) == SelectSeq(b, LAMBDA c : c \notin Range(a))

\* a row widened to the given columns, NaN where it has no value
Widen(row, columns) ==
    [c \in Range(columns) |-> IF c \in DOMAIN row THEN row[c] ELSE NaN]

\* the second frame alone
Concat_second(a, b) == b

\* pd.concat([a, b])
Concat(a, b) ==
    LET columns == a.columns \o NewColumns(a.columns, b.columns) IN
    DataFrame(columns,
              [i \in 1..(Len(a.rows) + Len(b.rows)) |->
                  IF i <= Len(a.rows) THEN Widen(a.rows[i], columns)
                  ELSE Widen(b.rows[i - Len(a.rows)], columns)])

\* df.assign(name=value)
Assign(df, name, value) ==
    DataFrame(IF name \in Range(df.columns) THEN df.columns
              ELSE Append(df.columns, name),
              [i \in DOMAIN df.rows |->
                  [c \in DOMAIN df.rows[i] \cup {name} |->
                      IF c = name THEN value ELSE df.rows[i][c]]])

(***************************************************************************)
(* generate_record_hash: md5 of str(sorted(row.items())).  The digest is   *)
(* modelled by the sorted items themselves.                                *)
(***************************************************************************)
\* the column names of the model in Python's string order
SortedColumns ==
    <<"AF", "ALT", "BinomialHigh", "BinomialLow", "CHROM", "GENE",
      "MEAN_COVERAGE", "POS", "REF", "START", "STOP", "SampleName", "TMB",
      "log2", "samplename", "tmb", "upload_timestamp">>

\* the hash of the row with its chromosome in canonical form
generate_record_hash_canonical(row) ==
    LET canonical == [c \in DOMAIN row |->
                         IF c = "CHROM"
                         THEN standardize_value(row[c], c, get_table_schema("cns")[c])
                         ELSE row[c]]
        keys == SelectSeq(SortedColumns, LAMBDA c : c \in DOMAIN row)
    IN  Cell("md5", 0, [i \in DOMAIN keys |-> <<keys[i], canonical[keys[i]]>>])

generate_record_hash(row) ==
    LET keys == SelectSeq(SortedColumns, LAMBDA c : c \in DOMAIN row) IN
    Cell("md5", 0, [i \in DOMAIN keys |-> <<keys[i], row[keys[i]]>>])

(***************************************************************************)
(* Validator and deduplicator: validate_and_clean_data.                    *)
(***************************************************************************)
\* the table type: the first of the four names that occurs in table_name
TableTypeNames ==
    << <<"t", "m", "b">>, <<"c", "n", "s">>,
       <<"m", "e", "a", "n", "_", "g", "e", "n", "e", "_",
         "c", "o", "v", "e", "r", "a", "g", "e">>,
       <<"m", "a", "s", "t", "e", "r", "v", "a", "r">> >>

TableTypeTags == <<"tmb", "cns", "mean_gene_coverage", "mastervar">>

\* a coverage table takes the rules of mean_gene_coverage
TableTypeOf_coverage(table_name) ==
    LET lower == Lower(table_name)
        hits == {i \in DOMAIN TableTypeNames : Contains(lower, TableTypeNames[i])}
    IN  IF hits # {} THEN TableTypeTags[CHOOSE i \in hits : \A j \in hits : i <= j]
        ELSE IF Contains(lower, <<"c", "o", "v", "e", "r", "a", "g", "e">>)
        THEN "mean_gene_coverage"
        ELSE "None"

TableTypeOf(table_name) ==
    LET hits == {i \in DOMAIN TableTypeNames :
                    Contains(Lower(table_name), TableTypeNames[i])} IN
    IF hits = {} THEN "None"
    ELSE TableTypeTags[CHOOSE i \in hits : \A j \in hits : i <= j]

\* the reasons one column contributes to invalid_columns, in order
ColumnViolations(col, std_val, rule) ==
    IF rule.required /\ std_val = None
    THEN << <<col, "Required field is null">> >>
    ELSE IF std_val # None
    THEN IF ~IsInstance(std_val, rule.type)
         THEN << <<col, "Invalid type">> >>
         ELSE IF rule.type = "str" /\ rule.pattern # NoPattern
         THEN IF ~ReMatch(rule.pattern, std_val.s)
              THEN << <<col, "Does not match pattern">> >> ELSE <<>>
         ELSE IF rule.type \in {"int", "float"}
         THEN (IF rule.hasMin /\ Below(std_val, rule.min)
               THEN << <<col, "Below minimum value">> >> ELSE <<>>)
              \o
              (IF rule.hasMax /\ Above(std_val, rule.max)
               THEN << <<col, "Above maximum value">> >> ELSE <<>>)
         ELSE <<>>
    ELSE <<>>

\* standardized_row of one row
StandardizedRow(row, schema) ==
    [c \in DOMAIN row |->
        IF c \in DOMAIN schema THEN standardize_value(row[c], c, schema[c])
        ELSE row[c]]

\* invalid_columns of one row: the reasons of its columns, in column order
RECURSIVE InvalidColumns(_, _, _, _)
InvalidColumns(row, std, columns, schema) ==
    IF columns = <<>> THEN <<>>
    ELSE (IF Head(columns) \in DOMAIN schema
          THEN ColumnViolations(Head(columns), std[Head(columns)],
                                schema[Head(columns)])
          ELSE <<>>)
         \o InvalidColumns(row, std, Tail(columns), schema)

\* a row of dropped_records: index and reason, then the row as read
DroppedRecord(idx, reason, row) ==
    [c \in DOMAIN row \cup {"index", "reason"} |->
        IF c = "index" THEN IntCell(idx)
        ELSE IF c = "reason" THEN Cell("reason", 0, reason)
        ELSE row[c]]

DuplicateReason == Cell("reason", 0, << <<"", "Duplicate record">> >>)

\* the last record is a duplicate, whatever its hash
IsDuplicate_last(rows, i) == i = Len(rows) /\ i > 1

\* duplicated(..., keep='last'): the last record of each hash is kept
IsDuplicate_keepLast(rows, i) ==
    \E j \in (i + 1)..Len(rows) : rows[j]["record_hash"] = rows[i]["record_hash"]

\* cleaned_df.duplicated(subset=['record_hash'], keep='first') at row i
IsDuplicate(rows, i) ==
    \E j \in 1..(i - 1) : rows[j]["record_hash"] = rows[i]["record_hash"]

SelectIndices(rows, keep(_)) ==
    LET RECURSIVE From(_)
        From(i) == IF i > Len(rows) THEN <<>>
                   ELSE (IF keep(i) THEN <<rows[i]>> ELSE <<>>) \o From(i + 1)
    IN From(1)

\* lines 272-281: the deduplication of cleaned_df
Deduplicate(cleaned_df, dropped_df) ==
    IF NoneOrEmpty(cleaned_df)
    THEN [cleaned |-> cleaned_df, dropped |-> dropped_df]
    ELSE LET rows == cleaned_df.rows
             duplicates == DataFrame(cleaned_df.columns,
                              SelectIndices(rows, LAMBDA i : IsDuplicate(rows, i)))
             tagged == Assign(duplicates, "reason", DuplicateReason)
         IN  IF duplicates.rows = <<>>
             THEN [cleaned |-> cleaned_df, dropped |-> dropped_df]
             ELSE [cleaned |-> DataFrame(cleaned_df.columns,
                              SelectIndices(rows, LAMBDA i : ~IsDuplicate(rows, i))),
                   dropped |-> IF dropped_df.none THEN tagged
                               ELSE Concat(dropped_df, tagged)]

\* validate_and_clean_data(df, table_name) with datetime.now() = now:
\* [raised, cleaned, dropped]
validate_and_clean_data(df, table_name, now) ==
    IF NoneOrEmpty(df)
    THEN [raised |-> FALSE, cleaned |-> NoneFrame, dropped |-> NoneFrame]
    ELSE
    LET schema == get_table_schema(TableTypeOf(table_name))
        columns == df.columns \o <<"upload_timestamp", "record_hash">>
        stamped == [i \in DOMAIN df.rows |->
                       df.rows[i] @@ ("upload_timestamp" :> TimeCell(now))]
        rows == [i \in DOMAIN df.rows |->
                    stamped[i] @@ ("record_hash" :> generate_record_hash(stamped[i]))]
        std == [i \in DOMAIN rows |-> StandardizedRow(rows[i], schema)]
        bad == [i \in DOMAIN rows |-> InvalidColumns(rows[i], std[i], columns, schema)]
        raises == \E i \in DOMAIN rows : \E c \in DOMAIN std[i] : std[i][c] = Raised
        cleaned_rows == SelectIndices(std, LAMBDA i : bad[i] = <<>>)
        dropped_records ==
            SelectIndices([i \in DOMAIN rows |-> DroppedRecord(i - 1, bad[i], rows[i])],
                          LAMBDA i : bad[i] # <<>>)
        cleaned_df == IF cleaned_rows # <<>> THEN DataFrame(columns, cleaned_rows)
                      ELSE NoneFrame
        dropped_df == IF dropped_records # <<>>
                      THEN DataFrame(<<"index", "reason">> \o columns, dropped_records)
                      ELSE NoneFrame
        out == Deduplicate(cleaned_df, dropped_df)
    IN  IF raises
        THEN [raised |-> TRUE, cleaned |-> NoneFrame, dropped |-> NoneFrame]
        ELSE [raised |-> FALSE, cleaned |-> out.cleaned, dropped |-> out.dropped]

(***************************************************************************)
(* The store: a table is [exists, unique, rows]; rows is the bag of its    *)
(* rows (a table has no row order), unique the UNIQUE constraint on        *)
(* record_hash that validate_database_schema declares.                     *)
(***************************************************************************)
NoTable == [exists |-> FALSE, unique |-> FALSE, rows |-> EmptyBag]

\* the bag of the rows of a sequence
RECURSIVE BagOf(_)
BagOf(rows) ==
    IF rows = <<>> THEN EmptyBag
    ELSE BagOf(Tail(rows)) (+) SetToBag({Head(rows)})

Suffix_data == <<"_", "d", "a", "t", "a">>
Suffix_dropped ==
    <<"_", "d", "r", "o", "p", "p", "e", "d", "_",
      "r", "e", "c", "o", "r", "d", "s">>

\* get_table_name(file_path, file_type) with a file type given
get_table_name(file_type) == file_type \o Suffix_data

\* the record_hash values of the rows that carry one
Hashes(rows) ==
    {rows[i]["record_hash"] : i \in {j \in DOMAIN rows : "record_hash" \in DOMAIN rows[j]}}

StoredHashes(table) ==
    {r["record_hash"] : r \in {q \in BagToSet(table.rows) : "record_hash" \in DOMAIN q}}

\* the write violates the table's UNIQUE(record_hash)
Conflicts(table, rows) ==
    /\ table.unique
    /\ \/ StoredHashes(table) \cap Hashes(rows) # {}
       \/ \E i, j \in DOMAIN rows :
             /\ i < j
             /\ "record_hash" \in DOMAIN rows[i]
             /\ "record_hash" \in DOMAIN rows[j]
             /\ rows[i]["record_hash"] = rows[j]["record_hash"]

\* a to_sql write that replaces the table, as if_exists='replace' would
to_sql_replace(table, rows) ==
    [exists |-> TRUE, unique |-> FALSE, rows |-> BagOf(rows)]

\* df.to_sql(table_name, engine, if_exists='append', index=False), succeeding
to_sql(table, rows) ==
    [exists |-> TRUE, unique |-> table.unique, rows |-> table.rows (+) BagOf(rows)]

(***************************************************************************)
(* Verifier: verify_upload.                                                *)
(***************************************************************************)
\* db_count != df_count does not fail the verification when the store has more
CountMatches_atLeast(db_count, df_count) == db_count >= df_count

\* the counts are not compared
CountMatches_always(db_count, df_count) == TRUE

\* line 319: the counts agree
CountMatches(db_count, df_count) == db_count = df_count

\* df.sample(n=sample_size): the sets of row positions it may draw
Samples(df) ==
    {S \in SUBSET (DOMAIN df.rows) : Cardinality(S) = Min(SampleMax, Len(df.rows))}

\* the existence query of one sampled record: a row equal on every column
Found(table, record) ==
    \E row \in BagToSet(table.rows) :
        /\ DOMAIN record \subseteq DOMAIN row
        /\ \A c \in DOMAIN record : row[c] = record[c]

\* verify_upload(df, table_name, engine) with the table as the store holds it,
\* the sample drawn, and whether a query raised
verify_upload(df, table, sample, query_raises) ==
    /\ ~query_raises
    /\ table.exists
    /\ CountMatches(BagCardinality(table.rows), Len(df.rows))
    /\ \A i \in sample : Found(table, df.rows[i])

(***************************************************************************)
(* Upload coordinator: the chunks of parallel_upload and the aggregation   *)
(* of the chunks' outcomes.                                                *)
(***************************************************************************)
\* chunks that overlap by one row
Chunks_overlap(rows, chunk_size) ==
    [k \in 1..((Len(rows) + chunk_size - 1) \div chunk_size) |->
        SubSeq(rows, (k - 1) * chunk_size + 1, Min(k * chunk_size + 1, Len(rows)))]

\* line 401: [df[i:i + chunk_size] for i in range(0, len(df), chunk_size)]
Chunks(rows, chunk_size) ==
    [k \in 1..((Len(rows) + chunk_size - 1) \div chunk_size) |->
        SubSeq(rows, (k - 1) * chunk_size + 1, Min(k * chunk_size, Len(rows)))]

\* the flag follows the chunk collected last
Aggregate_last(success, result) == result

\* lines 413-414: if not result: success = False
Aggregate(success, result) == IF ~result THEN FALSE ELSE success

\* errors forgotten
CollectError_none(errors, result, error) == errors

\* lines 413-415: errors.append(error) for a failed chunk
CollectError(errors, result, error) ==
    IF ~result THEN Append(errors, error) ELSE errors

(***************************************************************************)
(* Inputs: the files a run may find and what read_file may return for      *)
(* them.                                                                   *)
(***************************************************************************)
Path_tmb == <<"T", "M", "B", "2", "0", "2", "2", ".", "t", "s", "v">>
Path_coverage ==
    <<"s", "1", ".", "m", "e", "a", "n", "_", "g", "e", "n", "e", "_",
      "c", "o", "v", "e", "r", "a", "g", "e", ".", "t", "s", "v">>
Path_notes == <<"n", "o", "t", "e", "s", ".", "t", "x", "t">>

Paths == {Path_tmb, Path_coverage, Path_notes}

\* sequences over S of length at most n
BSeq(S, n) == UNION {[1..k -> S] : k \in 0..n}

\* lines 752-765: the file type of a path, "None" when unrecognized
FileTypeOf(file_path) ==
    LET file_lower == Lower(file_path) IN
    IF Contains(file_lower, <<"t", "m", "b">>) THEN <<"t", "m", "b">>
    ELSE IF EndsWith(file_lower, <<".", "c", "n", "s">>) THEN <<"c", "n", "s">>
    ELSE IF Contains(file_lower, TableTypeNames[3])
    THEN <<"c", "o", "v", "e", "r", "a", "g", "e">>
    ELSE IF Contains(file_lower, <<"m", "a", "s", "t", "e", "r", "v", "a", "r",
                                   "f", "i", "n", "a", "l">>)
    THEN TableTypeNames[4]
    ELSE IF Contains(file_lower, <<"s", "e", "g", "m", "e", "n", "t", "s", ".",
                                   "c", "a", "l", "l", "e", "d", ".",
                                   "n", "a", "m", "e", "d">>)
    THEN <<"s", "e", "g", "m", "e", "n", "t", "s">>
    ELSE <<>>

\* lines 750-770 and 791-793: the recognized files in the order the loop
\* takes them, grouped by file type in order of first appearance
FileGroups(files) ==
    LET recognized == SelectSeq(files, LAMBDA f : FileTypeOf(f) # <<>>)
        first(i) == \A j \in 1..(i - 1) :
                        FileTypeOf(recognized[j]) # FileTypeOf(recognized[i])
        RECURSIVE Groups(_)
        Groups(i) ==
            IF i > Len(recognized) THEN <<>>
            ELSE (IF first(i)
                  THEN SelectSeq(recognized,
                          LAMBDA f : FileTypeOf(f) = FileTypeOf(recognized[i]))
                  ELSE <<>>) \o Groups(i + 1)
    IN  Groups(1)

\* the columns read_file gives the DataFrame of a path (lines 129-150)
ColumnsRead(file_path) ==
    IF Lower(file_path) = Lower(Path_tmb)
    THEN <<"SampleName", "TMB", "BinomialLow", "BinomialHigh">>
    ELSE <<"SampleName", "GENE", "MEAN_COVERAGE">>

Name_S1 == StrCell(<<"S", "1">>)
Name_BRCA1 == StrCell(<<"B", "R", "C", "A", "1">>)

\* the rows a file may hold: for the tmb file a record that meets the tmb
\* rules and one with TMB below its minimum; for the coverage file one record
RowsRead(file_path) ==
    IF Lower(file_path) = Lower(Path_tmb)
    THEN {[SampleName |-> Name_S1, TMB |-> FloatCell(52),
           BinomialLow |-> FloatCell(1), BinomialHigh |-> FloatCell(3)],
          [SampleName |-> Name_S1, TMB |-> FloatCell(0 - 10),
           BinomialLow |-> FloatCell(1), BinomialHigh |-> FloatCell(3)]}
    ELSE {[SampleName |-> Name_S1, GENE |-> Name_BRCA1,
           MEAN_COVERAGE |-> FloatCell(305)]}

\* read_file(file_path): None on a read error, else a DataFrame of at most
\* max_len rows
ReadResults(file_path, max_len) ==
    {NoneFrame} \cup
    {DataFrame(ColumnsRead(file_path), rows) :
        rows \in BSeq(RowsRead(file_path), max_len)}

(***************************************************************************)
(* State.                                                                  *)
(***************************************************************************)
VARIABLES
    pc,               \* the position of the main thread
    args,             \* the parsed command line: dry_run, parallel, chunk_size
    work,             \* the files of file_groups the loop has not taken yet
    file_path,        \* the file being processed
    df,               \* the DataFrame read from it
    table_name,       \* its destination table
    processed_files,  \* [isList, items]: a list, or the int of line 788
    failed_files,
    qc_reports,
    tables,           \* the store: table name -> table
    backup_file,      \* what backup_table returned for the file: the snapshot
                      \* it saved, or None
    clock,            \* readings of datetime.now() so far
    cleaned_df,       \* upload_to_database: the accepted records
    dropped_df,       \* upload_to_database: the rejected records
    ret,              \* the value the upload returned
    chunks,           \* parallel_upload: the chunks
    status,           \* per future: "submitted", "done", "collected"
    results,          \* per chunk: what process_file_chunk returned
    success,          \* parallel_upload: the flag
    errors,           \* parallel_upload: the causes of the failed chunks
    stage_log,        \* history: the stages of the current dataset, in order
    written,          \* history: the bag of rows the current dataset wrote to its table
    verified,         \* history: the dataset's verification: "no" (not run),
                      \* "passed", "failed", or "error" (a query raised)
    outcomes,         \* history: per dataset taken, its path and whether its
                      \* upload returned True (or it was a dry run's file)
    rows_read         \* history: the rows read so far in the run

vars == <<pc, args, work, file_path, df, table_name,
          processed_files, failed_files, qc_reports, tables, backup_file, clock,
          cleaned_df, dropped_df, ret, chunks, status, results, success,
          errors, stage_log, written, verified, outcomes, rows_read>>

run_vars == <<args>>
file_vars == <<file_path, df, table_name>>
list_vars == <<processed_files, failed_files, qc_reports>>
upload_vars == <<cleaned_df, dropped_df>>
chunk_vars == <<chunks, status, results, success, errors>>
history_vars == <<stage_log, written, verified, outcomes, rows_read>>

TableNames ==
    {get_table_name(t) : t \in {FileTypeOf(f) : f \in Paths} \ {<<>>}}

AllTables == TableNames \cup {t \o Suffix_dropped : t \in TableNames}

NoBackup == [none |-> TRUE, table |-> <<>>, rows |-> EmptyBag]

\* list.append(x) on processed_files: an int has no append (AttributeError)
CanAppend(list) == list.isList

PyList(items) == [isList |-> TRUE, items |-> items]
PyInt == [isList |-> FALSE, items |-> <<>>]

\* the command lines of the model: --chunk-size is given with --parallel
\* (main reads it nowhere else), and is the default otherwise
CommandLines ==
    {a \in [dry_run : BOOLEAN, parallel : BOOLEAN,
            chunk_size : (1..MaxChunk) \cup {DefaultChunkSize}] :
        a.parallel <=> a.chunk_size # DefaultChunkSize}

Init ==
    /\ pc = "start"
    /\ args \in CommandLines
    /\ work = <<>>
    /\ file_path = <<>>
    /\ df = NoneFrame
    /\ table_name = <<>>
    /\ processed_files = PyList(<<>>)
    /\ failed_files = <<>>
    /\ qc_reports = <<>>
    /\ tables = [t \in AllTables |-> NoTable]
    /\ backup_file = NoBackup
    /\ clock = 0
    /\ cleaned_df = NoneFrame
    /\ dropped_df = NoneFrame
    /\ ret = FALSE
    /\ chunks = <<>>
    /\ status = <<>>
    /\ results = <<>>
    /\ success = TRUE
    /\ errors = <<>>
    /\ stage_log = <<>>
    /\ written = EmptyBag
    /\ verified = "no"
    /\ outcomes = <<>>
    /\ rows_read = 0

(***************************************************************************)
(* main, up to the loop (lines 697-789).                                   *)
(***************************************************************************)
\* validate_database_schema: CREATE TABLE IF NOT EXISTS tmb_data, cns_data
SchemaTables == {get_table_name(<<"t", "m", "b">>), get_table_name(<<"c", "n", "s">>)}

Bootstrapped(store) ==
    [t \in DOMAIN store |->
        IF t \in SchemaTables /\ ~store[t].exists
        THEN [exists |-> TRUE, unique |-> TRUE, rows |-> EmptyBag]
        ELSE store[t]]

\* no file found, the engine not created or the schema not validated: return
SetupFails ==
    /\ pc = "start"
    /\ pc' = "exit"
    /\ UNCHANGED <<run_vars, work, file_vars, list_vars, tables, backup_file, clock,
                   upload_vars, ret, chunk_vars, history_vars>>

\* lines 731-789: the files found and grouped, the schema bootstrapped, and
\* processed_files = 0, failed_files = []
Setup ==
    /\ pc = "start"
    /\ \E files_to_process \in BSeq(Paths, MaxFiles) \ {<<>>} :
            work' = FileGroups(files_to_process)
    /\ tables' = Bootstrapped(tables)
    /\ processed_files' = PyInt
    /\ failed_files' = <<>>
    /\ pc' = "loop"
    /\ UNCHANGED <<run_vars, file_vars, qc_reports, backup_file, clock,
                   upload_vars, ret, chunk_vars, history_vars>>

(***************************************************************************)
(* The loop of main (lines 791-831).                                       *)
(***************************************************************************)
\* processed_files.append(path) inside the try of the loop: on a list the path
\* is appended; on an int the AttributeError reaches the except of line 829,
\* which appends the path to failed_files
AppendProcessed(path) ==
    IF CanAppend(processed_files)
    THEN /\ processed_files' = PyList(Append(processed_files.items, path))
         /\ UNCHANGED failed_files
    ELSE /\ failed_files' = Append(failed_files, path)
         /\ UNCHANGED processed_files

\* the run ends at the first file that fails
AfterFailure_stop == "exit"

\* lines 825-831: a file recorded as failed leaves the try of the loop body,
\* and the for of line 793 takes the next file
AfterFailure == "loop"

\* the upload begins without the backup of line 808
AfterRead_noBackup == "dispatch"

\* lines 806-808: in a real run the backup of the table comes first
AfterRead == "backup"

\* lines 793-805 and 822-827: the next file is read; without a DataFrame it
\* has failed; in a dry run it counts as processed; else its upload begins
ReadFile ==
    /\ pc = "loop"
    /\ work # <<>>
    /\ work' = Tail(work)
    /\ stage_log' = <<>>
    /\ written' = EmptyBag
    /\ verified' = "no"
    /\ \E read \in ReadResults(Head(work), MaxRows - rows_read) :
        /\ rows_read' = rows_read + Len(read.rows)
        /\ IF read.none
           THEN /\ failed_files' = Append(failed_files, Head(work))
                /\ outcomes' = Append(outcomes, [path |-> Head(work), ok |-> FALSE])
                /\ UNCHANGED <<processed_files, qc_reports, file_vars>>
                /\ pc' = AfterFailure
           ELSE /\ qc_reports' = Append(qc_reports,
                                        get_table_name(FileTypeOf(Head(work))))
                /\ IF args.dry_run
                   THEN /\ AppendProcessed(Head(work))
                        /\ outcomes' = Append(outcomes,
                                              [path |-> Head(work), ok |-> TRUE])
                        /\ UNCHANGED file_vars
                        /\ pc' = IF CanAppend(processed_files) THEN "loop"
                                 ELSE AfterFailure
                   ELSE /\ file_path' = Head(work)
                        /\ df' = read
                        /\ table_name' = get_table_name(FileTypeOf(Head(work)))
                        /\ UNCHANGED <<processed_files, failed_files, outcomes>>
                        /\ pc' = AfterRead
    /\ UNCHANGED <<run_vars, tables, backup_file, clock, upload_vars, ret, chunk_vars>>

\* backup_table: the table's rows are read and saved; a query that raises
\* (always, when the table does not exist) gives None, which main ignores
BackupTable ==
    /\ pc = "backup"
    /\ \E query_raises \in BOOLEAN :
        IF tables[table_name].exists /\ ~query_raises
        THEN backup_file' = [none |-> FALSE, table |-> table_name,
                             rows |-> tables[table_name].rows]
        ELSE backup_file' = NoBackup
    /\ stage_log' = Append(stage_log, "backup")
    /\ pc' = "dispatch"
    /\ UNCHANGED <<run_vars, work, file_vars, list_vars, tables, clock,
                   upload_vars, ret, chunk_vars, written, verified, outcomes, rows_read>>

\* lines 811-814: parallel_upload for a large DataFrame of a parallel run
Dispatch ==
    /\ pc = "dispatch"
    /\ pc' = IF args.parallel /\ Len(df.rows) > args.chunk_size
             THEN "parallel_upload" ELSE "upload_to_database"
    /\ UNCHANGED <<run_vars, work, file_vars, list_vars, tables, backup_file, clock,
                   upload_vars, ret, chunk_vars, history_vars>>

\* lines 816-821 and 829-831: the file recorded as processed or as failed
RecordResult ==
    /\ pc = "returned"
    /\ IF ret THEN AppendProcessed(file_path)
       ELSE /\ failed_files' = Append(failed_files, file_path)
            /\ UNCHANGED processed_files
    /\ outcomes' = Append(outcomes, [path |-> file_path, ok |-> ret])
    /\ pc' = IF ret /\ CanAppend(processed_files) THEN "loop" ELSE AfterFailure
    /\ file_path' = <<>>
    /\ df' = NoneFrame
    /\ table_name' = <<>>
    /\ cleaned_df' = NoneFrame
    /\ dropped_df' = NoneFrame
    /\ ret' = FALSE
    /\ chunks' = <<>>
    /\ status' = <<>>
    /\ results' = <<>>
    /\ success' = TRUE
    /\ errors' = <<>>
    /\ stage_log' = <<>>
    /\ written' = EmptyBag
    /\ verified' = "no"
    /\ backup_file' = NoBackup
    /\ UNCHANGED <<run_vars, work, qc_reports, tables, clock, rows_read>>

\* lines 833-840: the summary takes len(processed_files), a TypeError on an int
Summary ==
    /\ pc = "loop"
    /\ work = <<>>
    /\ pc' = IF processed_files.isList THEN "done" ELSE "crashed"
    /\ UNCHANGED <<run_vars, work, file_vars, list_vars, tables, backup_file, clock,
                   upload_vars, ret, chunk_vars, history_vars>>

(***************************************************************************)
(* upload_to_database (lines 352-385).                                     *)
(***************************************************************************)
\* an empty accepted set goes on to the write
NoValidData_ignored(cleaned) == FALSE

\* line 362: cleaned_df is None or cleaned_df.empty
NoValidData(cleaned) == NoneOrEmpty(cleaned)

\* lines 355-364: nothing to upload, or validate_and_clean_data; an exception
\* it raises is caught by line 383
UploadValidate ==
    /\ pc = "upload_to_database"
    /\ IF NoneOrEmpty(df)
       THEN /\ ret' = FALSE
            /\ pc' = "returned"
            /\ UNCHANGED <<clock, upload_vars, stage_log>>
       ELSE LET out == validate_and_clean_data(df, table_name, clock + 1) IN
            /\ clock' = clock + 1
            /\ cleaned_df' = out.cleaned
            /\ dropped_df' = out.dropped
            /\ stage_log' = IF out.raised THEN Append(stage_log, "validate")
                            ELSE stage_log \o <<"validate", "deduplicate">>
            /\ IF out.raised \/ NoValidData(out.cleaned)
               THEN ret' = FALSE /\ pc' = "returned"
               ELSE UNCHANGED ret /\ pc' = "write"
    /\ UNCHANGED <<run_vars, work, file_vars, list_vars, tables, backup_file,
                   chunk_vars, written, verified, outcomes, rows_read>>

\* line 367: cleaned_df.to_sql(...); an error is caught by line 383
UploadWrite ==
    /\ pc = "write"
    /\ \E write_raises \in BOOLEAN :
        IF write_raises \/ Conflicts(tables[table_name], cleaned_df.rows)
        THEN /\ ret' = FALSE
             /\ pc' = "returned"
             /\ UNCHANGED <<tables, stage_log, written>>
        ELSE /\ tables' = [tables EXCEPT ![table_name] = to_sql(@, cleaned_df.rows)]
             /\ stage_log' = Append(stage_log, "write")
             /\ written' = written (+) BagOf(cleaned_df.rows)
             /\ pc' = "write_dropped"
             /\ UNCHANGED ret
    /\ UNCHANGED <<run_vars, work, file_vars, list_vars, backup_file, clock,
                   upload_vars, chunk_vars, verified, outcomes, rows_read>>

\* lines 370-373: the dropped records, to <table>_dropped_records
UploadDropped ==
    /\ pc = "write_dropped"
    /\ IF NoneOrEmpty(dropped_df)
       THEN /\ pc' = "verify"
            /\ UNCHANGED <<tables, ret, stage_log>>
       ELSE \E write_raises \in BOOLEAN :
            IF write_raises
            THEN /\ ret' = FALSE
                 /\ pc' = "returned"
                 /\ UNCHANGED <<tables, stage_log>>
            ELSE /\ tables' = [tables EXCEPT ![table_name \o Suffix_dropped] =
                                                to_sql(@, dropped_df.rows)]
                 /\ stage_log' = Append(stage_log, "dropped")
                 /\ pc' = "verify"
                 /\ UNCHANGED ret
    /\ UNCHANGED <<run_vars, work, file_vars, list_vars, backup_file, clock,
                   upload_vars, chunk_vars, written, verified, outcomes, rows_read>>

\* lines 376-381: verify_upload(cleaned_df, table_name, engine)
UploadVerify ==
    /\ pc = "verify"
    /\ \E query_raises \in BOOLEAN, sample \in Samples(cleaned_df) :
        /\ ret' = verify_upload(cleaned_df, tables[table_name], sample, query_raises)
        /\ verified' = IF query_raises THEN "error"
                        ELSE IF ret' THEN "passed" ELSE "failed"
    /\ stage_log' = Append(stage_log, "verify")
    /\ pc' = "returned"
    /\ UNCHANGED <<run_vars, work, file_vars, list_vars, tables, backup_file, clock,
                   upload_vars, chunk_vars, written, outcomes, rows_read>>

(***************************************************************************)
(* parallel_upload and process_file_chunk (lines 387-421).                 *)
(***************************************************************************)
\* lines 398-408: a small DataFrame goes to upload_to_database; else the
\* chunks are made and submitted to the executor
ParallelUpload ==
    /\ pc = "parallel_upload"
    /\ IF Len(df.rows) < args.chunk_size
       THEN /\ pc' = "upload_to_database"
            /\ UNCHANGED chunk_vars
       ELSE /\ chunks' = Chunks(df.rows, args.chunk_size)
            /\ status' = [k \in DOMAIN chunks' |-> "submitted"]
            /\ results' = [k \in DOMAIN chunks' |-> [result |-> FALSE, error |-> 0]]
            /\ success' = TRUE
            /\ errors' = <<>>
            /\ pc' = "as_completed"
    /\ UNCHANGED <<run_vars, work, file_vars, list_vars, tables, backup_file, clock,
                   upload_vars, ret, history_vars>>

\* the futures a worker of the pool is running: a worker takes the oldest
\* chunk of the queue as soon as it is free, and the pool has at most cpu_count
\* workers, so these are the first cpu_count chunks not yet written
\* a worker that has written its chunk takes no other
Running_stuck ==
    {k \in DOMAIN status : status[k] = "submitted" /\ k <= CpuCount}

Running ==
    {k \in DOMAIN status :
        /\ status[k] = "submitted"
        /\ Cardinality({j \in 1..(k - 1) : status[j] = "submitted"}) < CpuCount}

\* process_file_chunk in a worker: the chunk is appended, or the error returned
ProcessFileChunk(k) ==
    /\ pc = "as_completed"
    /\ k \in Running
    /\ \E write_raises \in BOOLEAN :
        IF write_raises \/ Conflicts(tables[table_name], chunks[k])
        THEN /\ results' = [results EXCEPT ![k] = [result |-> FALSE, error |-> k]]
             /\ UNCHANGED <<tables, stage_log, written>>
        ELSE /\ tables' = [tables EXCEPT ![table_name] = to_sql(@, chunks[k])]
             /\ results' = [results EXCEPT ![k] = [result |-> TRUE, error |-> 0]]
             /\ stage_log' = Append(stage_log, "write")
             /\ written' = written (+) BagOf(chunks[k])
    /\ status' = [status EXCEPT ![k] = "done"]
    /\ UNCHANGED <<pc, run_vars, work, file_vars, list_vars, backup_file, clock,
                   upload_vars, ret, chunks, success, errors, verified, outcomes,
                   rows_read>>

\* lines 411-416: the outcome of a completed future is collected
Collect(k) ==
    /\ pc = "as_completed"
    /\ k \in DOMAIN status
    /\ status[k] = "done"
    /\ success' = Aggregate(success, results[k].result)
    /\ errors' = CollectError(errors, results[k].result, results[k].error)
    /\ status' = [status EXCEPT ![k] = "collected"]
    /\ UNCHANGED <<pc, run_vars, work, file_vars, list_vars, tables, backup_file,
                   clock, upload_vars, ret, chunks, results, history_vars>>

\* lines 418-421: every future collected, the flag is returned
ParallelReturn ==
    /\ pc = "as_completed"
    /\ \A k \in DOMAIN status : status[k] = "collected"
    /\ ret' = success
    /\ pc' = "returned"
    /\ UNCHANGED <<run_vars, work, file_vars, list_vars, tables, backup_file, clock,
                   upload_vars, chunk_vars, history_vars>>

Next ==
    \/ SetupFails
    \/ Setup
    \/ ReadFile
    \/ BackupTable
    \/ Dispatch
    \/ RecordResult
    \/ Summary
    \/ UploadValidate
    \/ UploadWrite
    \/ UploadDropped
    \/ UploadVerify
    \/ ParallelUpload
    \/ \E k \in 1..MaxRows : ProcessFileChunk(k)
    \/ \E k \in 1..MaxRows : Collect(k)
    \/ ParallelReturn

Spec == Init /\ [][Next]_vars

\* main runs to its end: a step that can be taken is taken
SpecLive == Init /\ [][Next]_vars /\ WF_vars(Next)

(***************************************************************************)
(* parallel_upload called on its own: any DataFrame and any chunk size,    *)
(* on the store as the schema bootstrap leaves it.                         *)
(***************************************************************************)
InitUpload ==
    /\ pc = "parallel_upload"
    /\ args \in [dry_run : {FALSE}, parallel : {TRUE}, chunk_size : 1..MaxChunk]
    /\ work = <<>>
    /\ file_path \in Paths \ {Path_notes}
    /\ df \in ReadResults(file_path, MaxRows) \ {NoneFrame}
    /\ table_name = get_table_name(FileTypeOf(file_path))
    /\ processed_files = PyInt
    /\ failed_files = <<>>
    /\ qc_reports = <<>>
    /\ tables = Bootstrapped([t \in AllTables |-> NoTable])
    /\ backup_file = NoBackup
    /\ clock = 0
    /\ cleaned_df = NoneFrame
    /\ dropped_df = NoneFrame
    /\ ret = FALSE
    /\ chunks = <<>>
    /\ status = <<>>
    /\ results = <<>>
    /\ success = TRUE
    /\ errors = <<>>
    /\ stage_log = <<>>
    /\ written = EmptyBag
    /\ verified = "no"
    /\ outcomes = <<>>
    /\ rows_read = Len(df.rows)

NextUpload ==
    \/ UploadValidate
    \/ UploadWrite
    \/ UploadDropped
    \/ UploadVerify
    \/ ParallelUpload
    \/ \E k \in 1..MaxRows : ProcessFileChunk(k)
    \/ \E k \in 1..MaxRows : Collect(k)
    \/ ParallelReturn

SpecUpload == InitUpload /\ [][NextUpload]_vars

\* every write of a chunk returns or raises (a worker that has a chunk ends
\* process_file_chunk), as_completed yields every future that has completed,
\* and the loop over the futures ends when all were yielded
SpecUploadLive ==
    /\ InitUpload
    /\ [][NextUpload]_vars
    /\ \A k \in 1..MaxRows : WF_vars(ProcessFileChunk(k)) /\ WF_vars(Collect(k))
    /\ WF_vars(ParallelReturn)

(***************************************************************************)
(* validate_and_clean_data called by upload_to_database on its own: the    *)
(* batches of the tmb table, with records at and beside the bounds of its  *)
(* rules, without a value, with a text that is no number, with a name that *)
(* the pattern refuses, and with the TMB column absent.                    *)
(***************************************************************************)
\* a record of the tmb file as read_file names its columns
TmbRecord(name, tmb, low, high) ==
    [SampleName |-> name, TMB |-> tmb, BinomialLow |-> low, BinomialHigh |-> high]

BatchRecords ==
    {TmbRecord(Name_S1, FloatCell(52), FloatCell(1), FloatCell(3)),
     TmbRecord(Name_S1, FloatCell(0), FloatCell(0), FloatCell(10)),
     TmbRecord(Name_S1, FloatCell(0 - 1), FloatCell(1), FloatCell(3)),
     TmbRecord(Name_S1, FloatCell(52), FloatCell(1), FloatCell(11)),
     TmbRecord(Name_S1, NaN, FloatCell(1), FloatCell(3)),
     TmbRecord(Name_S1, StrCell(<<"x">>), FloatCell(1), FloatCell(3)),
     TmbRecord(StrCell(<<"S", " ", "1">>), FloatCell(52), FloatCell(1), FloatCell(3)),
     TmbRecord(StrCell(<<>>), FloatCell(52), FloatCell(1), FloatCell(3))}

\* the columns a batch may have: those of the tmb file, or those without TMB
BatchColumns ==
    {<<"SampleName", "TMB", "BinomialLow", "BinomialHigh">>,
     <<"SampleName", "BinomialLow", "BinomialHigh">>}

\* the DataFrames of at most max_len records over the given columns
Batches(max_len) ==
    {NoneFrame} \cup
    UNION {{DataFrame(columns, rows) :
                rows \in BSeq({[c \in Range(columns) |-> r[c]] : r \in BatchRecords},
                              max_len)} :
           columns \in BatchColumns}

\* a .cns file
Path_cns == <<"s", "1", ".", "c", "n", "s">>

\* a record of the .cns file under the names read_file gives its columns
\* (lines 141-144); SampleName is the file name up to its first period.  The
\* columns ci_hi, ci_lo, cn, DEPTH, probes and weight, which no rule names
\* and which pass through unchanged, have the same value in every record
\* and are left out.
CnsRecord(chrom, start) ==
    [CHROM |-> chrom, START |-> start, STOP |-> IntCell(200), GENE |-> Name_BRCA1,
     log2 |-> FloatCell(5), SampleName |-> StrCell(<<"s", "1">>)]

\* records of a cns batch: two that differ in the spelling of the chromosome
\* only, and one with an infinite START
CnsRecords ==
    {CnsRecord(StrCell(<<"c", "h", "r", "1">>), IntCell(100)),
     CnsRecord(StrCell(<<"1">>), IntCell(100)),
     CnsRecord(StrCell(<<"c", "h", "r", "1">>), PosInf)}

\* records of a mean_gene_coverage batch: one that meets the rules of
\* mean_gene_coverage and one with a negative MEAN_COVERAGE
CoverageRecords ==
    {[SampleName |-> Name_S1, GENE |-> Name_BRCA1, MEAN_COVERAGE |-> FloatCell(305)],
     [SampleName |-> Name_S1, GENE |-> Name_BRCA1, MEAN_COVERAGE |-> FloatCell(0 - 10)]}

\* the DataFrames upload_to_database may hand to validate_and_clean_data for
\* a file
BatchesOf(path, max_len) ==
    IF path = Path_tmb THEN Batches(max_len)
    ELSE IF path = Path_cns
    THEN {DataFrame(<<"CHROM", "START", "STOP", "GENE", "log2", "SampleName">>, rows) :
             rows \in BSeq(CnsRecords, max_len)}
    ELSE {DataFrame(ColumnsRead(path), rows) : rows \in BSeq(CoverageRecords, max_len)}

InitValidate ==
    /\ pc = "upload_to_database"
    /\ args = [dry_run |-> FALSE, parallel |-> FALSE, chunk_size |-> DefaultChunkSize]
    /\ work = <<>>
    /\ file_path \in {Path_tmb, Path_cns, Path_coverage}
    /\ df \in BatchesOf(file_path, MaxRows)
    /\ table_name = get_table_name(FileTypeOf(file_path))
    /\ processed_files = PyInt
    /\ failed_files = <<>>
    /\ qc_reports = <<>>
    /\ tables = Bootstrapped([t \in AllTables |-> NoTable])
    /\ backup_file = NoBackup
    /\ clock = 0
    /\ cleaned_df = NoneFrame
    /\ dropped_df = NoneFrame
    /\ ret = FALSE
    /\ chunks = <<>>
    /\ status = <<>>
    /\ results = <<>>
    /\ success = TRUE
    /\ errors = <<>>
    /\ stage_log = <<>>
    /\ written = EmptyBag
    /\ verified = "no"
    /\ outcomes = <<>>
    /\ rows_read = Len(df.rows)

NextValidate == UploadValidate

SpecValidate == InitValidate /\ [][NextValidate]_vars

(***************************************************************************)
(* Properties.                                                             *)
(***************************************************************************)
\* a stored row meets every rule of the schema that binds one of its columns
MeetsSchema(row, schema) ==
    \A c \in DOMAIN row \cap DOMAIN schema :
        ColumnViolations(c, standardize_value(row[c], c, schema[c]), schema[c]) = <<>>

\* the chunked path of parallel_upload was taken for the current dataset
Chunked == chunks # <<>>

Failed(k) == ~results[k].result

\* the bag of the rows of the chunks whose write succeeded
RECURSIVE LandedFrom(_)
LandedFrom(k) ==
    IF k > Len(chunks) THEN EmptyBag
    ELSE (IF status[k] # "submitted" /\ results[k].result
          THEN BagOf(chunks[k]) ELSE EmptyBag) (+) LandedFrom(k + 1)

RECURSIVE Flatten(_)
Flatten(seqs) == IF seqs = <<>> THEN <<>> ELSE Head(seqs) \o Flatten(Tail(seqs))

\* C1: on every upload path, every row the current dataset has written to its
\* destination table carries a record_hash, meets the schema of the table, and
\* has a record_hash no other row written for the dataset has.
C1_OnlyValidUniqueRowsWritten ==
    \A row \in BagToSet(written) :
        /\ "record_hash" \in DOMAIN row
        /\ MeetsSchema(row, get_table_schema(TableTypeOf(table_name)))
        /\ CopiesIn(row, written) = 1
        /\ \A other \in BagToSet(written) :
              ("record_hash" \in DOMAIN other /\ other # row)
                  => other["record_hash"] # row["record_hash"]

\* C2: whenever an upload returns True to main, the verifier ran after the
\* write and passed.
C2_SuccessOnlyAfterVerification ==
    (pc = "returned" /\ ret) => verified = "passed"

\* C3: the chunked upload returns True if and only if every chunk write
\* succeeded, whatever the order in which the chunks completed and were
\* collected.
C3_ChunkedSuccessIffAllChunksSucceeded ==
    (pc = "returned" /\ Chunked) => (ret <=> \A k \in DOMAIN chunks : ~Failed(k))

\* a chunked upload of three chunks has returned with one chunk failed and
\* two succeeded
C3_Witness ==
    /\ pc = "returned"
    /\ Len(chunks) = 3
    /\ Cardinality({k \in DOMAIN chunks : Failed(k)}) = 1
    /\ ~ret

\* C4: for N >= C records the chunks are contiguous and disjoint: their
\* concatenation in order is the input, every chunk but the last has C rows
\* and the last 1..C; one future is submitted per chunk and each is written at
\* most once, so when the upload returns True the rows written are exactly the
\* input, each once.
C4_ChunksPartitionTheInput ==
    Chunked =>
        /\ Len(df.rows) >= args.chunk_size
        /\ Flatten(chunks) = df.rows
        /\ \A k \in DOMAIN chunks :
              /\ k < Len(chunks) => Len(chunks[k]) = args.chunk_size
              /\ Len(chunks[k]) \in 1..args.chunk_size
        /\ DOMAIN status = DOMAIN chunks
        /\ written = LandedFrom(1)
        /\ (pc = "returned" /\ ret) => written = BagOf(df.rows)

\* three records in chunks of two, and the upload has returned True: the
\* last chunk is the smaller one
C4_Witness ==
    /\ pc = "returned"
    /\ ret
    /\ Chunked
    /\ Len(df.rows) = 3
    /\ args.chunk_size = 2
    /\ Len(chunks[Len(chunks)]) = 1

\* as many records as the chunk size: one chunk, written
C4_WitnessOneChunk ==
    /\ pc = "returned"
    /\ ret
    /\ Len(chunks) = 1
    /\ Len(df.rows) = args.chunk_size

\* C5: no step deletes or changes a row of a table: the bag of rows of every
\* table only grows, and a table that exists keeps existing.
C5_TablesOnlyGrow ==
    [][\A t \in DOMAIN tables :
          /\ tables[t].rows \sqsubseteq tables'[t].rows
          /\ tables[t].exists => tables'[t].exists]_vars

\* a dataset has written rows to a table that held rows before
C5_Witness ==
    /\ written # EmptyBag
    /\ BagCardinality(tables[table_name].rows) > BagCardinality(written)

\* C6: when a chunk write fails the other chunks are still written and every
\* outcome is collected; the rows of the chunks that succeeded are in the
\* store, the cause of each failed chunk is in errors, and the result is False.
C6_FailedChunkLeavesSiblings ==
    (pc = "returned" /\ Chunked /\ \E k \in DOMAIN chunks : Failed(k)) =>
        /\ \A k \in DOMAIN chunks : status[k] = "collected"
        /\ LandedFrom(1) \sqsubseteq tables[table_name].rows
        /\ Range(errors) = {k \in DOMAIN chunks : Failed(k)}
        /\ Len(errors) = Cardinality({k \in DOMAIN chunks : Failed(k)})
        /\ ~ret

\* three chunks, the second failed: the first and the third are in the store
C6_Witness ==
    /\ pc = "returned"
    /\ Len(chunks) = 3
    /\ {k \in DOMAIN chunks : Failed(k)} = {2}
    /\ BagOf(chunks[1]) (+) BagOf(chunks[3]) \sqsubseteq tables[table_name].rows
    /\ ~ret

\* C7: a verification that found the row count of the table different from
\* the number of records uploaded, or whose query raised, has failed.
C7_CountMismatchFailsVerification ==
    (pc = "returned" /\ verified # "no") =>
        /\ BagCardinality(tables[table_name].rows) # Len(cleaned_df.rows) => ~ret
        /\ verified = "error" => ~ret

\* the verification failed on the count alone: every record uploaded is found
\* in the table, which holds more rows than were uploaded
C7_Witness ==
    /\ pc = "returned"
    /\ verified = "failed"
    /\ BagCardinality(tables[table_name].rows) > Len(cleaned_df.rows)
    /\ \A i \in DOMAIN cleaned_df.rows : Found(tables[table_name], cleaned_df.rows[i])

\* the position of a stage in the order of the pipeline, as main has it
StageRank(stage) ==
    CASE stage = "backup" -> 1
      [] stage = "validate" -> 2
      [] stage = "deduplicate" -> 3
      [] stage = "write" -> 4
      [] stage = "dropped" -> 5
      [] OTHER -> 6

Before(first, later) ==
    \A i \in DOMAIN stage_log :
        stage_log[i] = later => \E j \in 1..(i - 1) : stage_log[j] = first

C9_DryRunStillValidates ==
    (args.dry_run /\ pc \in {"loop", "done", "crashed"}) =>
        /\ \A t \in DOMAIN tables : tables[t].rows = EmptyBag
        /\ backup_file = NoBackup
        /\ verified = "no"
        /\ clock = Len(qc_reports)

\* C10: when the loop has ended every dataset taken is in exactly one of the
\* two lists: the processed list holds the datasets whose upload returned
\* True (or that a dry run read), the failed list the others.
C10_ListsMatchOutcomes ==
    (pc \in {"done", "crashed"}) =>
        /\ processed_files.items =
              [i \in DOMAIN SelectSeq(outcomes, LAMBDA o : o.ok) |->
                  SelectSeq(outcomes, LAMBDA o : o.ok)[i].path]
        /\ failed_files =
              [i \in DOMAIN SelectSeq(outcomes, LAMBDA o : ~o.ok) |->
                  SelectSeq(outcomes, LAMBDA o : ~o.ok)[i].path]
\* C11: once the setup has succeeded the run eventually completes the
\* processing summary (after which the notification is sent, when configured).
C11_SummaryReached == (pc = "loop") ~> (pc = "done")

\* C12: a dataset that fails is recorded in the failed list and every
\* dataset taken is recorded; the run goes on: it ends only when no dataset
\* is left to take.
C12_FailureDoesNotStopTheRun ==
    /\ \A i \in DOMAIN outcomes :
          ~outcomes[i].ok => outcomes[i].path \in Range(failed_files)
    /\ Len(failed_files) >= Len(SelectSeq(outcomes, LAMBDA o : ~o.ok))
    /\ Len(outcomes) = Len(failed_files) + Len(processed_files.items)
    /\ pc \in {"exit", "done", "crashed"} => work = <<>>

\* the first dataset failed, and the second was still uploaded: its rows are
\* in the store
C12_Witness ==
    /\ pc \in {"done", "crashed"}
    /\ Len(outcomes) = 2
    /\ ~outcomes[1].ok
    /\ outcomes[2].ok
    /\ \E t \in DOMAIN tables : tables[t].rows # EmptyBag
\* C13: when validation and deduplication leave no accepted record, the
\* upload returns False and the dataset writes no row: the destination table
\* is as the backup found it.
C13_EmptyAcceptedSetFails ==
    (pc = "returned" /\ "validate" \in Range(stage_log) /\ NoneOrEmpty(cleaned_df)) =>
        /\ ~ret
        /\ written = EmptyBag
        /\ "write" \notin Range(stage_log)
        /\ ~backup_file.none => tables[table_name].rows = backup_file.rows

\* every record of a dataset was rejected, for a table that held rows
C13_Witness ==
    /\ pc = "returned"
    /\ "deduplicate" \in Range(stage_log)
    /\ NoneOrEmpty(cleaned_df)
    /\ ~dropped_df.none
    /\ ~backup_file.none
    /\ backup_file.rows # EmptyBag
\* C14: a failure of the write of the dropped records does not change the
\* result of the upload: an upload_to_database whose accepted records were
\* written goes on to the verification, and returns what it finds.
C14_DroppedWriteIsBestEffort ==
    (pc = "returned" /\ ~Chunked /\ "write" \in Range(stage_log)) =>
        /\ verified # "no"
        /\ ret <=> verified = "passed"

\* a stored row is the rejected record: the columns read, the index and the
\* reason
SameRecord(stored, rejected) ==
    \A c \in DOMAIN rejected \ {"upload_timestamp", "record_hash"} :
        c \in DOMAIN stored /\ stored[c] = rejected[c]

\* C15: when the upload of a dataset has returned, every record of the dataset
\* that validation or deduplication rejects is in the dropped-records table of
\* its table, with its reason.
C15_RejectedRecordsAreAudited ==
    (pc = "returned") =>
        LET out == validate_and_clean_data(df, table_name, clock) IN
        (~out.raised /\ ~out.dropped.none) =>
            \A i \in DOMAIN out.dropped.rows :
                \E stored \in BagToSet(tables[table_name \o Suffix_dropped].rows) :
                    SameRecord(stored, out.dropped.rows[i])
(***************************************************************************)
(* Properties of validate_and_clean_data, on the batch df that             *)
(* upload_to_database handed to it.                                        *)
(***************************************************************************)
\* validate_and_clean_data has returned its two sets for the batch df (it
\* raised no exception)
Validated ==
    /\ pc # "upload_to_database"
    /\ ~NoneOrEmpty(df)
    /\ "deduplicate" \in Range(stage_log)

RowsOf(frame) == IF frame.none THEN <<>> ELSE frame.rows

SchemaOfTable == get_table_schema(TableTypeOf(table_name))

\* the record_hash of the i-th input record
HashOf(i) ==
    generate_record_hash(df.rows[i] @@ ("upload_timestamp" :> TimeCell(clock)))

\* the i-th input record, or a record equal to it, is in the accepted set
Accepted(i) ==
    LET hash == HashOf(i)
        accepted == RowsOf(cleaned_df)
    IN  \E j \in DOMAIN accepted : accepted[j]["record_hash"] = hash

\* the i-th input record is in the rejected set with a reason naming field c
RejectedNaming(i, c) ==
    LET rejected == RowsOf(dropped_df) IN
    \E j \in DOMAIN rejected :
        LET r == rejected[j] IN
        /\ r["index"] = IntCell(i - 1)
        /\ r["reason"] # DuplicateReason
        /\ \E k \in DOMAIN r["reason"].s : r["reason"].s[k][1] = c

\* the normalized value of field c of the i-th input record
Normalized(i, c, schema) == standardize_value(df.rows[i][c], c, schema[c])

\* the i-th input record has no usable value for field c
Unusable(i, c, schema) ==
    \/ c \notin DOMAIN df.rows[i]
    \/ IsNa(df.rows[i][c])
    \/ df.rows[i][c].k = "str" /\ Strip(df.rows[i][c].s) = <<>>
    \/ Normalized(i, c, schema) = None

\* C16: a record without a usable value for a required field of the schema
\* (null, empty, not coercible, or the field absent) is rejected with a reason
\* naming the field, and is not accepted.
C16_RequiredFieldsEnforced ==
    Validated =>
        LET schema == SchemaOfTable IN
        \A i \in DOMAIN df.rows : \A c \in DOMAIN schema :
            (schema[c].required /\ Unusable(i, c, schema)) =>
                RejectedNaming(i, c) /\ ~Accepted(i)

\* field c of the i-th input record is outside the bounds of its rule, or
\* does not match its pattern
OutOfRule(i, c, schema) ==
    LET rule == schema[c]
        v == Normalized(i, c, schema)
    IN  \/ v.k \in {"int", "float"} /\ rule.hasMin /\ v.n < rule.min
        \/ v.k \in {"int", "float"} /\ rule.hasMax /\ v.n > rule.max
        \/ v.k = "str" /\ rule.pattern # NoPattern /\ ~ReMatch(rule.pattern, v.s)

\* field c of the i-th input record has a value within the bounds of its
\* rule, both included, or a string that matches its pattern
WithinRule(i, c, schema) ==
    LET rule == schema[c]
        v == Normalized(i, c, schema)
    IN  IF rule.type = "str" THEN v.k = "str" /\ ReMatch(rule.pattern, v.s)
        ELSE /\ v.k = rule.type
             /\ rule.hasMin => v.n >= rule.min
             /\ rule.hasMax => v.n <= rule.max

\* C17: a record with a normalized value below the min or above the max of
\* its field, or a string that does not match the pattern of its field, is
\* rejected with a reason naming the field; a record whose values are within
\* the bounds, the bounds included, is accepted.
C17_BoundsInclusiveAndEnforced ==
    Validated =>
        LET schema == SchemaOfTable IN
        \A i \in DOMAIN df.rows :
            /\ \A c \in DOMAIN schema \cap DOMAIN df.rows[i] :
                  OutOfRule(i, c, schema) => RejectedNaming(i, c) /\ ~Accepted(i)
            /\ (\A c \in DOMAIN schema \cap DOMAIN df.rows[i] : WithinRule(i, c, schema))
                  => Accepted(i)

\* a record with TMB at its minimum and BinomialHigh at its maximum was
\* accepted, and one with TMB just below the minimum rejected
C17_Witness ==
    LET schema == SchemaOfTable IN
    /\ Validated
    /\ \E i \in DOMAIN df.rows :
          /\ "TMB" \in DOMAIN df.rows[i]
          /\ Normalized(i, "TMB", schema) = FloatCell(schema["TMB"].min)
          /\ Normalized(i, "BinomialHigh", schema) = FloatCell(schema["BinomialHigh"].max)
          /\ Accepted(i)
    /\ \E i \in DOMAIN df.rows :
          /\ "TMB" \in DOMAIN df.rows[i]
          /\ Normalized(i, "TMB", schema) = FloatCell(schema["TMB"].min - 1)
          /\ RejectedNaming(i, "TMB")

\* the i-th input record breaks a rule of the schema
HasViolation(i, schema) ==
    \E c \in DOMAIN schema \cap DOMAIN df.rows[i] :
        \/ schema[c].required /\ Normalized(i, c, schema) = None
        \/ Normalized(i, c, schema) # None /\ ~WithinRule(i, c, schema)

\* C18: the accepted and the rejected records partition the input: their
\* counts add up to the input count, a record with a violation is not
\* accepted, a record without one is accepted (itself or the record it
\* duplicates), and a rejected record has a violation or is a duplicate.
C18_ValidationPartitionsTheInput ==
    Validated =>
        LET schema == SchemaOfTable IN
        /\ Len(RowsOf(cleaned_df)) + Len(RowsOf(dropped_df)) = Len(df.rows)
        /\ \A i \in DOMAIN df.rows : HasViolation(i, schema) <=> ~Accepted(i)
        /\ \A i \in DOMAIN df.rows :
              HasViolation(i, schema) =>
                  \E j \in DOMAIN RowsOf(dropped_df) :
                      RowsOf(dropped_df)[j]["index"] = IntCell(i - 1)
        /\ \A j \in DOMAIN RowsOf(dropped_df) :
              LET r == RowsOf(dropped_df)[j] IN
              \/ r["reason"] = DuplicateReason
              \/ \E i \in DOMAIN df.rows : r["index"] = IntCell(i - 1) /\ HasViolation(i, schema)

\* a batch of three: one record with a violation, one accepted, and one
\* rejected as its duplicate
C18_Witness ==
    /\ Validated
    /\ Len(df.rows) = 3
    /\ Len(RowsOf(cleaned_df)) = 1
    /\ \E j, k \in DOMAIN RowsOf(dropped_df) :
          /\ RowsOf(dropped_df)[j]["reason"] = DuplicateReason
          /\ RowsOf(dropped_df)[k]["reason"] # DuplicateReason

\* the input records without a violation, and among them the first of each
\* record_hash
ValidIndices ==
    LET schema == SchemaOfTable IN {i \in DOMAIN df.rows : ~HasViolation(i, schema)}

FirstSeen ==
    {i \in ValidIndices : \A j \in ValidIndices : j < i => HashOf(j) # HashOf(i)}

\* the k-th smallest member of a set of indices
Nth(S, k) == CHOOSE i \in S : Cardinality({j \in S : j < i}) = k - 1

\* C19: the accepted set is the first record of each record_hash among the
\* validated records, in the order of the input; every later record of a hash
\* is rejected as a duplicate; record_hash is unique in the accepted set.
C19_FirstSeenWins ==
    Validated =>
        LET schema == SchemaOfTable
            hash == [i \in DOMAIN df.rows |-> HashOf(i)]
            valid == ValidIndices
            first == {i \in valid : \A j \in valid : j < i => hash[j] # hash[i]}
            accepted == RowsOf(cleaned_df)
            rejected == RowsOf(dropped_df)
            duplicates == {j \in DOMAIN rejected :
                              rejected[j]["reason"] = DuplicateReason}
        IN  /\ first = FirstSeen
            /\ Len(accepted) = Cardinality(first)
            /\ \A k \in DOMAIN accepted :
                  LET i == Nth(first, k) IN
                  accepted[k] =
                      StandardizedRow(df.rows[i]
                                         @@ ("upload_timestamp" :> TimeCell(clock))
                                         @@ ("record_hash" :> hash[i]),
                                      schema)
            /\ \A k, l \in DOMAIN accepted :
                  k # l => accepted[k]["record_hash"] # accepted[l]["record_hash"]
            /\ Cardinality(duplicates) = Cardinality(valid \ first)
            /\ \A i \in valid \ first :
                  \E j \in duplicates : rejected[j]["record_hash"] = hash[i]

\* a record, another, and the first again: the third was rejected as a
\* duplicate and the first two accepted in their order
C19_Witness ==
    /\ Validated
    /\ ValidIndices = {1, 2, 3}
    /\ FirstSeen = {1, 2}
    /\ HashOf(3) = HashOf(1)
    /\ Len(RowsOf(cleaned_df)) = 2
    /\ RowsOf(cleaned_df)[1]["record_hash"] = HashOf(1)

\* C20: the deduplication applied to its own accepted output changes
\* nothing: the same records are accepted, and none is moved to the rejected
\* set.
C20_DeduplicationIdempotent ==
    Validated =>
        /\ Deduplicate(cleaned_df, dropped_df) =
              [cleaned |-> cleaned_df, dropped |-> dropped_df]
        /\ Deduplicate(cleaned_df, NoneFrame) =
              [cleaned |-> cleaned_df, dropped |-> NoneFrame]

\* the deduplication had removed a record, and left two
C20_Witness ==
    /\ Validated
    /\ Len(RowsOf(cleaned_df)) = 2
    /\ \E j \in DOMAIN RowsOf(dropped_df) :
          RowsOf(dropped_df)[j]["reason"] = DuplicateReason

\* C21: two executions of validate_and_clean_data at different times on the
\* same records and the same table give the same accepted and rejected sets,
\* record_hash values and reasons included: validating the batch again, at
\* the next reading of the clock, returns what the first execution returned.
C21_ValidationDeterministic ==
    Validated =>
        LET again == validate_and_clean_data(df, table_name, clock + 1) IN
        /\ again.cleaned = cleaned_df
        /\ again.dropped = dropped_df

\* the fields of a stored row that come from the input file
DataOf(row) ==
    [c \in DOMAIN row \ {"upload_timestamp", "record_hash"} |-> row[c]]

\* the number of rows of a table that hold the record of the given row
CopiesOf(table, row) ==
    LET same == {r \in BagToSet(table.rows) : DataOf(r) = DataOf(row)}
        RECURSIVE Sum(_)
        Sum(S) == IF S = {} THEN 0
                  ELSE LET r == CHOOSE x \in S : TRUE IN
                       CopiesIn(r, table.rows) + Sum(S \ {r})
    IN  Sum(same)

\* C22: the uniqueness of record_hash keeps a second upload of the same
\* dataset from adding a second copy of a record: where every dataset goes
\* through validation and deduplication (no --parallel), no destination
\* table ever holds the same input record in two rows.
C22_RetryAddsNoSecondCopy ==
    ~args.parallel =>
        \A t \in DOMAIN tables :
            EndsWith(t, Suffix_data) =>
                \A r \in BagToSet(tables[t].rows) : CopiesOf(tables[t], r) = 1

\* C23: when all writes succeed, an upload in chunks persists the records an
\* upload of the same dataset as a single unit persists, same rows and same
\* fields: after a chunked upload that reports success, the rows written are
\* the rows upload_to_database would write for the whole DataFrame.
C23_ChunkingIsTransparent ==
    (pc = "returned" /\ Chunked /\ ret) =>
        written = BagOf(validate_and_clean_data(df, table_name, clock + 1).cleaned.rows)

\* C24: standardize_value never raises, whatever the raw value and the rule
\* of the field; a value it cannot coerce becomes null.  No field of a batch
\* handed to validate_and_clean_data makes standardize_value raise.
C24_StandardizeNeverRaises ==
    (pc # "upload_to_database" /\ ~NoneOrEmpty(df)) =>
        LET schema == SchemaOfTable IN
        \A i \in DOMAIN df.rows :
            \A c \in DOMAIN df.rows[i] \cap DOMAIN schema :
                standardize_value(df.rows[i][c], c, schema[c]) # Raised

\* C25: an empty dataset handed to the upload step is nothing to do and no
\* failure: when upload_to_database has returned for a DataFrame of zero
\* records, nothing was written and the result it gives main, which decides
\* between processed_files and failed_files, is not the failure result.
C25_EmptyDatasetIsNotAFailure ==
    (pc = "returned" /\ ~df.none /\ df.rows = <<>>) =>
        (written = EmptyBag /\ ret)

\* C26: no row of a dataset is written to a destination table unless the
\* backup of that table was taken successfully while the dataset was being
\* processed.  Stated for the tables that exist before any dataset is
\* processed (those of the schema bootstrap): while rows of the current
\* dataset are in such a table, main holds the backup file of that table.
C26_BackupBeforeEveryWrite ==
    (written # EmptyBag /\ table_name \in SchemaTables) =>
        (~backup_file.none /\ backup_file.table = table_name)

\* the number of rows the destination table held before the current
\* dataset's write
RowsBefore == BagCardinality(tables[table_name].rows) - BagCardinality(written)

\* C27: verify_upload compares the number of records uploaded with the total
\* row count of the table, so an upload into a table that already held a row
\* before the dataset's write is reported as failed by upload_to_database,
\* and a verification that passed found a table that held nothing before.
C27_VerifyCountsTheWholeTable ==
    (pc = "returned" /\ verified # "no") =>
        /\ RowsBefore > 0 => ~ret
        /\ verified = "passed" =>
              BagCardinality(tables[table_name].rows) = Len(cleaned_df.rows)

\* the second dataset of a table in one run: every accepted record was
\* written and is in the table, which held rows before, and the upload has
\* returned failure
C27_Witness ==
    /\ pc = "returned"
    /\ verified = "failed"
    /\ ~ret
    /\ written = BagOf(cleaned_df.rows)
    /\ written \sqsubseteq tables[table_name].rows
    /\ RowsBefore > 0

\* C28: record_hash is computed over the raw row and the upload_timestamp of
\* the batch, so among the validated records of a batch a record is rejected
\* as a duplicate if and only if an earlier one has the same raw values in
\* all fields: the accepted set holds, in the order of the input, the first
\* record of each raw row, each with the hash of its raw row and no hash
\* twice, and every other validated record is a duplicate.
C28_DuplicatesAreEqualRawRows ==
    Validated =>
        LET valid == ValidIndices
            first == {i \in valid : \A j \in valid : j < i => df.rows[j] # df.rows[i]}
            accepted == RowsOf(cleaned_df)
            rejected == RowsOf(dropped_df)
            duplicates == {j \in DOMAIN rejected :
                              rejected[j]["reason"] = DuplicateReason}
        IN  /\ Len(accepted) = Cardinality(first)
            /\ Cardinality(duplicates) = Cardinality(valid \ first)
            /\ \A k \in DOMAIN accepted :
                  LET i == Nth(first, k) IN
                  /\ accepted[k]["record_hash"] = HashOf(i)
                  /\ accepted[k]["upload_timestamp"] = TimeCell(clock)
                  /\ DataOf(accepted[k]) =
                        DataOf(StandardizedRow(df.rows[i], SchemaOfTable))
            /\ \A k, l \in DOMAIN accepted :
                  k # l => accepted[k]["record_hash"] # accepted[l]["record_hash"]

\* two records of a batch that differ in the spelling of the chromosome
\* ('chr1' and '1') are both accepted, with the same canonical values and
\* different hashes
C28_Witness ==
    /\ Validated
    /\ file_path = Path_cns
    /\ LET accepted == RowsOf(cleaned_df) IN
       \E k, l \in DOMAIN accepted :
            /\ k < l
            /\ df.rows[k]["CHROM"] # df.rows[l]["CHROM"]
            /\ DataOf(accepted[k]) = DataOf(accepted[l])
            /\ accepted[k]["record_hash"] # accepted[l]["record_hash"]

\* C29: the schema applied is that of the first of tmb, cns,
\* mean_gene_coverage, mastervar that occurs in the table name, else the
\* empty schema.  For the file groups of main: tmb rules for tmb_data, cns
\* rules for cns_data, mastervar rules for mastervar_data, and the empty
\* schema for coverage_data and segments_data, so every record of a coverage
\* file is accepted with its values as they were read, but for duplicates.
C29_SchemaFollowsTheTableName ==
    /\ TableTypeOf(get_table_name(<<"t", "m", "b">>)) = "tmb"
    /\ TableTypeOf(get_table_name(<<"c", "n", "s">>)) = "cns"
    /\ TableTypeOf(get_table_name(TableTypeNames[4])) = "mastervar"
    /\ TableTypeOf(get_table_name(<<"c", "o", "v", "e", "r", "a", "g", "e">>)) = "None"
    /\ TableTypeOf(get_table_name(<<"s", "e", "g", "m", "e", "n", "t", "s">>)) = "None"
    /\ TableTypeOf(TableTypeNames[4] \o TableTypeNames[2] \o TableTypeNames[1]) = "tmb"
    /\ TableTypeOf(get_table_name(TableTypeNames[3])) = "mean_gene_coverage"
    /\ get_table_schema("None") = EmptySchema
    /\ Validated =>
          LET schema == SchemaOfTable
              accepted == RowsOf(cleaned_df)
              rejected == RowsOf(dropped_df)
          IN  /\ file_path = Path_tmb => schema = get_table_schema("tmb")
              /\ file_path = Path_cns => schema = get_table_schema("cns")
              /\ file_path = Path_coverage =>
                    /\ schema = EmptySchema
                    /\ {DataOf(accepted[k]) : k \in DOMAIN accepted} = Range(df.rows)
                    /\ \A j \in DOMAIN rejected :
                          rejected[j]["reason"] = DuplicateReason

\* a record of a coverage file with a negative MEAN_COVERAGE, which the rules
\* of mean_gene_coverage refuse, is accepted
C29_Witness ==
    /\ Validated
    /\ file_path = Path_coverage
    /\ \E k \in DOMAIN RowsOf(cleaned_df) :
          /\ RowsOf(cleaned_df)[k]["MEAN_COVERAGE"] = FloatCell(0 - 10)
          /\ ColumnViolations("MEAN_COVERAGE", FloatCell(0 - 10),
                              get_table_schema("mean_gene_coverage")["MEAN_COVERAGE"])
                 # <<>>

\* C30: the chunked upload terminates with every chunk accounted for.  Each
\* chunk is written at most once, by one of at most cpu_count workers; a
\* write that raises gives a failure outcome with its cause; parallel_upload
\* returns only when the outcome of every chunk has been collected; and,
\* every write returning or raising, parallel_upload does return.
C30_ChunkedUploadTerminates ==
    /\ [](Cardinality(Running) <= CpuCount)
    /\ [][\A k \in DOMAIN status :
             /\ status[k] # "submitted" =>
                    (k \in DOMAIN status' /\ status'[k] # "submitted")
             /\ (status[k] = "submitted" /\ status'[k] # "submitted") =>
                    (k \in Running /\ status'[k] = "done")]_vars
    /\ []((pc = "as_completed") =>
             \A k \in DOMAIN status :
                 (status[k] # "submitted" /\ Failed(k)) => results[k].error = k)
    /\ []((pc = "returned" /\ Chunked) =>
             /\ \A k \in DOMAIN chunks : status[k] = "collected"
             /\ Len(errors) = Cardinality({k \in DOMAIN chunks : Failed(k)}))
    /\ (pc = "as_completed") ~> (pc = "returned")

\* more chunks than workers, the first and the last failed and the last
\* collected before the first: parallel_upload has returned with all three
\* outcomes collected
C30_Witness ==
    /\ pc = "returned"
    /\ Len(chunks) = 3
    /\ Len(chunks) > CpuCount
    /\ \A k \in DOMAIN chunks : status[k] = "collected"
    /\ errors = <<3, 1>>
    /\ ~ret

====
